---- MODULE Spec2Model ----
(***************************************************************************)
(* Model of src/parser_sentence_transformer.py: predict, the budgeted      *)
(* selection of document chunks for a set of queries, with the helpers it  *)
(* calls (convert, convert_pandoc, chunk_to_length, embed).                *)
(*                                                                         *)
(* Strings.  Short strings (the queries argument, file names) are          *)
(* sequences of one-character strings.  Document texts run to hundreds of  *)
(* characters and are kept run-length encoded: a text is a sequence of     *)
(* runs [c |-> character, n |-> count], n > 0, adjacent runs of different  *)
(* characters.  The encoding is a bijection with character sequences       *)
(* (ToText / Expand), so equality of texts is equality of strings.         *)
(*                                                                         *)
(* Indices.  doc_idx and chunk_idx are 0-based as in the source; a TLA+    *)
(* sequence is 1-based, so chunked_docs[doc_idx][chunk_idx] of the source  *)
(* is chunked_docs[doc_idx + 1][chunk_idx + 1] here.                       *)
(*                                                                         *)
(* A document handle is modelled by the text its conversion yields (the    *)
(* content of a plain-text file, the markdown pandoc writes).  File names  *)
(* ending in .pdf (convert_pdf, OCR) are outside the inputs explored.      *)
(*                                                                         *)
(* Specifications.  Spec is one call of predict, one step per converted    *)
(* document, per stage (chunk, embed, build the queues), per test of the   *)
(* while loop and per pass of the for loop.  SpecTwice lets predict be     *)
(* called a second time with the same arguments.  SpecChunk applies        *)
(* chunk_to_length to every short text and max_length.                     *)
(***************************************************************************)
EXTENDS Integers, Sequences, FiniteSets, TLC

(***************************************************************************)
(* Bounds of the exploration.                                              *)
(***************************************************************************)
\* at most this many documents in one call
MaxDocs == 2
\* similarity scores range over 0..MaxScore
MaxScore == 1
\* texts of the chunker specification have at most this many characters
MaxTextLen == 5
\* max_length of the chunker specification ranges over 1..MaxChunkLen
MaxChunkLen == 3

\* chunk size predict passes to chunk_to_length
ChunkSize == 512

NL == "\n"

(***************************************************************************)
(* Python str on run-length encoded texts.                                 *)
(***************************************************************************)
Run(ch, k) == [c |-> ch, n |-> k]

\* len(text)
RECURSIVE TextLen(_)
TextLen(t) == IF t = <<>> THEN 0 ELSE Head(t).n + TextLen(Tail(t))

\* text[:k], k >= 0
RECURSIVE TextTake(_, _)
TextTake(t, k) ==
    IF k <= 0 \/ t = <<>> THEN <<>>
    ELSE IF Head(t).n <= k
         THEN <<Head(t)>> \o TextTake(Tail(t), k - Head(t).n)
         ELSE <<Run(Head(t).c, k)>>

\* text[k:], k >= 0
RECURSIVE TextDrop(_, _)
TextDrop(t, k) ==
    IF t = <<>> THEN <<>>
    ELSE IF k <= 0 THEN t
    ELSE IF Head(t).n <= k
         THEN TextDrop(Tail(t), k - Head(t).n)
         ELSE <<Run(Head(t).c, Head(t).n - k)>> \o Tail(t)

\* a + b
TextCat(a, b) ==
    IF a = <<>> THEN b
    ELSE IF b = <<>> THEN a
    ELSE IF a[Len(a)].c = Head(b).c
         THEN SubSeq(a, 1, Len(a) - 1)
              \o <<Run(Head(b).c, a[Len(a)].n + Head(b).n)>> \o Tail(b)
         ELSE a \o b

\* the text of a sequence of characters
RECURSIVE ToText(_)
ToText(s) == IF s = <<>> THEN <<>> ELSE TextCat(<<Run(Head(s), 1)>>, ToText(Tail(s)))

\* the sequence of characters of a text
RECURSIVE Expand(_)
Expand(t) ==
    IF t = <<>> THEN <<>>
    ELSE [i \in 1..Head(t).n |-> Head(t).c] \o Expand(Tail(t))

\* "".join(texts)
RECURSIVE JoinTexts(_)
JoinTexts(ts) == IF ts = <<>> THEN <<>> ELSE TextCat(Head(ts), JoinTexts(Tail(ts)))

(***************************************************************************)
(* Python str on character sequences.                                      *)
(***************************************************************************)
\* s.split("\n"): the pieces between newlines, one more than there are newlines
RECURSIVE Split(_)
Split(s) ==
    IF \A i \in DOMAIN s : s[i] # NL THEN <<s>>
    ELSE LET i == CHOOSE k \in DOMAIN s : s[k] = NL /\ \A j \in 1..(k - 1) : s[j] # NL
         IN  <<SubSeq(s, 1, i - 1)>> \o Split(SubSeq(s, i + 1, Len(s)))

\* s.endswith(suffix)
EndsWith(s, suffix) ==
    /\ Len(suffix) <= Len(s)
    /\ SubSeq(s, Len(s) - Len(suffix) + 1, Len(s)) = suffix

\* zip(a, b) stops at the shorter of the two
ZipLen(a, b) == IF Len(a) <= Len(b) THEN Len(a) ELSE Len(b)

(***************************************************************************)
(* convert                                                                 *)
(***************************************************************************)
plain_text_filetypes ==
    << <<".", "t", "x", "t">>,
       <<".", "c", "s", "v">>,
       <<".", "t", "s", "v">>,
       <<".", "m", "d">>,
       <<".", "y", "a", "m", "l">>,
       <<".", "t", "o", "m", "l">>,
       <<".", "j", "s", "o", "n">>,
       <<".", "j", "s", "o", "n", "5">>,
       <<".", "j", "s", "o", "n", "c">> >>

\* any(filename.endswith(ft) for ft in plain_text_filetypes)
IsPlainText(filename) ==
    \E k \in DOMAIN plain_text_filetypes : EndsWith(filename, plain_text_filetypes[k])

\* convert_pandoc raises when pandoc's exit code is not 0
PandocFailed_ignored(rc) == FALSE
PandocFailed(rc) == rc # 0

PandocError == "ValueError: Error converting file to markdown with pandoc"

(***************************************************************************)
(* chunk_to_length                                                         *)
(***************************************************************************)
RECURSIVE chunk_to_length_skip(_, _)
chunk_to_length_skip(text, max_length) ==
    IF TextLen(text) > max_length
    THEN <<TextTake(text, max_length)>>
         \o chunk_to_length_skip(TextDrop(text, max_length + 1), max_length)
    ELSE <<text>>

\* the same with the test `while len(text) >= max_length`
RECURSIVE chunk_to_length_ge(_, _)
chunk_to_length_ge(text, max_length) ==
    IF TextLen(text) >= max_length
    THEN <<TextTake(text, max_length)>>
         \o chunk_to_length_ge(TextDrop(text, max_length), max_length)
    ELSE <<text>>

\* the same with the last line `if text: chunks.append(text)`
RECURSIVE chunk_to_length_nonempty(_, _)
chunk_to_length_nonempty(text, max_length) ==
    IF TextLen(text) > max_length
    THEN <<TextTake(text, max_length)>>
         \o chunk_to_length_nonempty(TextDrop(text, max_length), max_length)
    ELSE IF TextLen(text) = 0 THEN <<>> ELSE <<text>>

RECURSIVE chunk_to_length(_, _)
chunk_to_length(text, max_length) ==
    IF TextLen(text) > max_length
    THEN <<TextTake(text, max_length)>>
         \o chunk_to_length(TextDrop(text, max_length), max_length)
    ELSE <<text>>

(***************************************************************************)
(* State.                                                                  *)
(***************************************************************************)
VARIABLES
    \* the arguments of predict
    queries_str,            \* queries, as passed: newline-separated
    documents,              \* documents: per handle, the text its conversion yields
    document_filenames_str, \* document_filenames, as passed: newline-separated
    max_characters,
    \* the world outside predict
    encoder,                \* similarity model.encode yields: [query, chunk text] -> score; <<>> until first used
    pandoc_exit,            \* exit code pandoc gave per document position, once it ran
    \* predict's locals
    pc,
    queries,                \* queries after split (line 119)
    document_filenames,     \* document_filenames after split (line 120)
    pandoc_result,          \* result of the last subprocess.call in convert_pandoc
    converted_docs,
    chunked_docs,
    embedded_docs,
    query_embeddings,       \* dict in insertion order: sequence of [key, val]
    document_embeddings,    \* per document, the selected chunk indices
    total_chars,
    item,                   \* position of the for loop of line 159 in query_embeddings.items()
    retval,                 \* what predict returned
    raised,                 \* the exception predict ended with
    \* history
    sel_log,                \* <<doc_idx, chunk_idx>> of every add (lines 176-177), in order
    discard_log,            \* <<doc_idx, chunk_idx>> of every candidate line 169 skipped, in order
    last_visit,             \* what the last pass of the for loop did
    prev_call,              \* outcome of the previous call with the same arguments
    rounds,                 \* times the body of the while loop of line 155 was entered
    \* the same allocation with the tests of lines 168 and 172 in the other order
    swapped_queues, swapped_selected, swapped_total,
    \* the chunker on its own
    ck_text, ck_max, ck_out

vars == <<queries_str, documents, document_filenames_str, max_characters,
          encoder, pandoc_exit, pc, queries, document_filenames, pandoc_result,
          converted_docs, chunked_docs, embedded_docs, query_embeddings,
          document_embeddings, total_chars, item, retval, raised,
          sel_log, discard_log, last_visit, prev_call, rounds,
          swapped_queues, swapped_selected, swapped_total, ck_text, ck_max, ck_out>>

args == <<queries_str, documents, document_filenames_str, max_characters>>
chunker_vars == <<ck_text, ck_max, ck_out>>
swapped_vars == <<swapped_queues, swapped_selected, swapped_total>>

\* retval, prev_call and ck_out hold nothing (<<>>) or one value (<<v>>)
NoValue == <<>>
Value(v) == <<v>>
NoError == "NoError"
NoCall == <<>>
NoVisit == [outcome |-> "none"]

(***************************************************************************)
(* dict, in insertion order                                                *)
(***************************************************************************)
DictHas(d, k) == \E i \in DOMAIN d : d[i].key = k

DictGet(d, k) == d[CHOOSE i \in DOMAIN d : d[i].key = k].val

\* d[k] = v: a new key goes last, a key already present keeps its place
DictSet(d, k, v) ==
    IF DictHas(d, k)
    THEN [i \in DOMAIN d |-> IF d[i].key = k THEN [key |-> k, val |-> v] ELSE d[i]]
    ELSE Append(d, [key |-> k, val |-> v])

(***************************************************************************)
(* embed                                                                   *)
(***************************************************************************)
\* the same row ranked: sorted(zip(chunk_idxs, query_scores), key=lambda x: -x[1])
RECURSIVE ranked(_)
ranked(row) ==
    IF row = <<>> THEN <<>>
    ELSE LET m == CHOOSE i \in DOMAIN row :
                      /\ \A j \in DOMAIN row : row[j][2] <= row[i][2]
                      /\ \A j \in 1..(i - 1) : row[j][2] < row[i][2]
         IN  <<row[m]>> \o ranked(SubSeq(row, 1, m - 1) \o SubSeq(row, m + 1, Len(row)))

ScoreRow_ranked(query, chunks) ==
    ranked([j \in 1..Len(chunks) |-> <<j - 1, encoder[query, chunks[j]]>>])

\* list(zip(chunk_idxs, query_scores)) for one query
ScoreRow(query, chunks) ==
    [j \in 1..Len(chunks) |-> <<j - 1, encoder[query, chunks[j]]>>]

\* the loop of lines 21-24 over the queries still to go
RECURSIVE embed_loop(_, _, _)
embed_loop(qs, chunks, results) ==
    IF qs = <<>> THEN results
    ELSE embed_loop(Tail(qs), chunks, DictSet(results, Head(qs), ScoreRow(Head(qs), chunks)))

\* one row per query line, in a list of pairs instead of a dict
embed_per_line(qs, chunks) ==
    [i \in DOMAIN qs |-> [key |-> qs[i], val |-> ScoreRow(qs[i], chunks)]]

embed(qs, chunks) == embed_loop(qs, chunks, <<>>)

(***************************************************************************)
(* predict, lines 136-149: merge per query, then sort by score             *)
(***************************************************************************)
\* lines 140-145 for one document: every query's row, tagged with doc_idx
RECURSIVE merge_doc(_, _, _)
merge_doc(qe, doc_idx, items) ==
    IF items = <<>> THEN qe
    ELSE LET query == Head(items).key
             doc_scores_with_doc ==
                 [k \in DOMAIN Head(items).val |->
                     <<doc_idx, Head(items).val[k][1], Head(items).val[k][2]>>]
             old == IF DictHas(qe, query) THEN DictGet(qe, query) ELSE <<>>
         IN  merge_doc(DictSet(qe, query, old \o doc_scores_with_doc), doc_idx, Tail(items))

\* lines 137-145: documents doc_idx, doc_idx + 1, ... of embedded
RECURSIVE merge_docs(_, _, _)
merge_docs(qe, doc_idx, embedded) ==
    IF embedded = <<>> THEN qe
    ELSE merge_docs(merge_doc(qe, doc_idx, Head(embedded)), doc_idx + 1, Tail(embedded))

RemoveAt(s, i) == SubSeq(s, 1, i - 1) \o SubSeq(s, i + 1, Len(s))

\* sorted(doc_scores, key=lambda x: x[2])[::-1]: equal scores end up in reverse order
RECURSIVE sorted_then_reversed(_)
sorted_then_reversed(s) ==
    IF s = <<>> THEN <<>>
    ELSE LET m == CHOOSE i \in DOMAIN s :
                      /\ \A j \in DOMAIN s : s[j][3] <= s[i][3]
                      /\ \A j \in (i + 1)..Len(s) : s[j][3] < s[i][3]
         IN  <<s[m]>> \o sorted_then_reversed(RemoveAt(s, m))

\* sorted(doc_scores, key=lambda x: x[2], reverse=True): stable, equal scores keep their order
RECURSIVE sorted_by_score(_)
sorted_by_score(s) ==
    IF s = <<>> THEN <<>>
    ELSE LET m == CHOOSE i \in DOMAIN s :
                      /\ \A j \in DOMAIN s : s[j][3] <= s[i][3]
                      /\ \A j \in 1..(i - 1) : s[j][3] < s[i][3]
         IN  <<s[m]>> \o sorted_by_score(RemoveAt(s, m))

\* lines 148-149
sort_all(qe) == [i \in DOMAIN qe |-> [key |-> qe[i].key, val |-> sorted_by_score(qe[i].val)]]

\* line 153: [[] for _ in range(len(documents))]
stale_document_embeddings(n) ==
    IF Len(document_embeddings) = n THEN document_embeddings ELSE [i \in 1..n |-> <<>>]
new_document_embeddings(n) == [i \in 1..n |-> <<>>]

(***************************************************************************)
(* predict, lines 155-177: the tests of the allocation loop                *)
(***************************************************************************)
RECURSIVE SumLens(_)
SumLens(ts) == IF ts = <<>> THEN 0 ELSE TextLen(Head(ts)) + SumLens(Tail(ts))

RECURSIVE SumSizes(_)
SumSizes(ss) == IF ss = <<>> THEN 0 ELSE Len(Head(ss)) + SumSizes(Tail(ss))

\* sum([len(x) for x in query_embeddings.values()])
QueuedTotal(qe) == SumSizes([i \in DOMAIN qe |-> qe[i].val])

\* line 129
fits_whole_or_exactly(total_doc_lengths, max_chars) == total_doc_lengths <= max_chars
fits_whole(total_doc_lengths, max_chars) == total_doc_lengths < max_chars

\* lines 155-158
loop_while_full_chunk_fits(total, max_chars, qe) ==
    total + ChunkSize <= max_chars /\ QueuedTotal(qe) > 0
loop_while_budget(total, max_chars, qe) == total < max_chars
loop_continues(total, max_chars, qe) == total < max_chars /\ QueuedTotal(qe) > 0

\* line 168
no_space_or_full(total, chunk, max_chars) == total + TextLen(chunk) >= max_chars
no_space(total, chunk, max_chars) == total + TextLen(chunk) > max_chars

\* line 172: chunk_idx in document_embeddings[doc_idx]
never_added(chunk_idx, selected) == FALSE
added_last(chunk_idx, selected) ==
    selected # <<>> /\ selected[Len(selected)] = chunk_idx
already_added(chunk_idx, selected) == \E i \in DOMAIN selected : selected[i] = chunk_idx

\* line 159: the for loop moves on to the next item of the dict
same_item(i) == i
next_item(i) == i + 1

\* line 164: doc_scores.pop(0) leaves the queue without its head
peek_head(doc_scores) == doc_scores
pop_head(doc_scores) == Tail(doc_scores)

\* line 177: total_chars += len(chunk)
add_full_chunk(total, chunk) == total + ChunkSize
add_chars(total, chunk) == total + TextLen(chunk)

\* line 181: the chunks of one document in the order of its list
RECURSIVE by_position(_)
by_position(chunks) ==
    IF chunks = <<>> THEN <<>>
    ELSE LET m == CHOOSE i \in DOMAIN chunks : \A j \in DOMAIN chunks : chunks[i] <= chunks[j]
         IN  <<chunks[m]>> \o by_position(RemoveAt(chunks, m))
in_list_order(chunks) == chunks

\* lines 180-183
chunk_texts(cd, de) ==
    [d \in DOMAIN de |->
        LET chunks == in_list_order(de[d])
        IN  [k \in DOMAIN chunks |-> cd[d][chunks[k] + 1]]]

\* line 130: [[doc] for doc, _ in converted_docs] unpacks every text into two
\* characters, which only a text of two characters allows
UnpackError == "ValueError: values to unpack (expected 2)"
fast_path_ok(docs) == \A i \in DOMAIN docs : TextLen(docs[i]) = 2
fast_path_value(docs) == [i \in DOMAIN docs |-> <<TextTake(docs[i], 1)>>]

(***************************************************************************)
(* The inputs explored.                                                    *)
(***************************************************************************)
\* all the documents of one call together have at most this many characters
MaxTotalChars == 1200

StringsUpTo(alphabet, n) == UNION {[1..k -> alphabet] : k \in 0..n}

SeqsUpTo(S, n) == UNION {[1..k -> S] : k \in 0..n}

\* the empty query, one query, two queries, a query given twice (next to
\* itself, and around another one)
QueryInputs ==
    { <<>>,
      <<"a">>,
      <<"a", NL, "b">>,
      <<"a", NL, "a">>,
      <<"a", NL, "b", NL, "a">> }

\* texts of 2, 600 and 1200 characters: one, two and three chunks
TextPool ==
    { <<Run("a", 1), Run("b", 1)>>,
      <<Run("d", 600)>>,
      <<Run("e", 600), Run("f", 600)>> }

DocumentInputs == {ds \in SeqsUpTo(TextPool, MaxDocs) : SumLens(ds) <= MaxTotalChars}

\* a plain-text name and one that goes to pandoc
PlainName == <<"a", ".", "t", "x", "t">>
PandocName == <<"b", ".", "d", "o", "c", "x">>
FileNames == {PlainName, PandocName}

RECURSIVE JoinLines(_)
JoinLines(names) ==
    IF Len(names) = 1 THEN Head(names)
    ELSE Head(names) \o <<NL>> \o JoinLines(Tail(names))

\* the names passed with n documents: at least one (the split of any string
\* has a piece), at most n, at most one of them a name that goes to pandoc
FilenameInputs(n) ==
    {JoinLines(names) :
        names \in {ns \in SeqsUpTo(FileNames, MaxDocs) :
                      /\ Len(ns) >= 1
                      /\ Len(ns) <= n \/ Len(ns) = 1
                      /\ Cardinality({i \in DOMAIN ns : ns[i] = PandocName}) <= 1}}

\* negative, zero, between the short text and two of them, and the lengths
\* of the longer texts
Budgets == {-1, 0, 3, 600, 1200}

PandocExitCodes == {0, 1}

\* two of the names random_word(16) can return
RandomWords == {"qwertyuiopasdfgh", "zxcvbnmlkjhgfdsa"}

Scores == 0..MaxScore

(***************************************************************************)
(* predict, lines 160-177 with the test of line 172 moved before the test  *)
(* of line 168: one pass of the for loop for the i-th item of queues.      *)
(***************************************************************************)
visit_swapped(queues, selected, total, i) ==
    LET doc_scores == queues[i].val
    IN  IF Len(doc_scores) = 0
        THEN [queues |-> queues, selected |-> selected, total |-> total]
        ELSE LET doc_idx == Head(doc_scores)[1]
                 chunk_idx == Head(doc_scores)[2]
                 chunk == chunked_docs[doc_idx + 1][chunk_idx + 1]
                 popped == [queues EXCEPT ![i].val = Tail(doc_scores)]
             IN  IF \E k \in DOMAIN selected[doc_idx + 1] :
                        selected[doc_idx + 1][k] = chunk_idx
                 THEN [queues |-> popped, selected |-> selected, total |-> total]
                 ELSE IF total + TextLen(chunk) > max_characters
                 THEN [queues |-> popped, selected |-> selected, total |-> total]
                 ELSE [queues |-> popped,
                       selected |-> [selected EXCEPT ![doc_idx + 1] = Append(@, chunk_idx)],
                       total |-> total + TextLen(chunk)]

(***************************************************************************)
(* Init: predict is about to be called.                                    *)
(***************************************************************************)
Locals0 ==
    /\ queries = <<>>
    /\ document_filenames = <<>>
    /\ pandoc_result = 0
    /\ converted_docs = <<>>
    /\ chunked_docs = <<>>
    /\ embedded_docs = <<>>
    /\ query_embeddings = <<>>
    /\ document_embeddings = <<>>
    /\ total_chars = 0
    /\ item = 0
    /\ retval = NoValue
    /\ raised = NoError
    /\ sel_log = <<>>
    /\ discard_log = <<>>
    /\ last_visit = NoVisit
    /\ prev_call = NoCall
    /\ rounds = 0
    /\ swapped_queues = <<>>
    /\ swapped_selected = <<>>
    /\ swapped_total = 0
    /\ encoder = <<>>
    /\ pandoc_exit = <<>>

ChunkerIdle ==
    /\ ck_text = <<>>
    /\ ck_max = 0
    /\ ck_out = NoValue

Init ==
    /\ queries_str \in QueryInputs
    /\ documents \in DocumentInputs
    /\ document_filenames_str \in FilenameInputs(Len(documents))
    /\ max_characters \in Budgets
    /\ pc = "start"
    /\ Locals0
    /\ ChunkerIdle

(***************************************************************************)
(* predict                                                                 *)
(***************************************************************************)
\* lines 119-120, and the comprehension of line 123 starts
Start ==
    /\ pc = "start"
    /\ queries' = Split(queries_str)
    /\ document_filenames' = Split(document_filenames_str)
    /\ converted_docs' = <<>>
    /\ pc' = "convert"
    /\ UNCHANGED <<args, encoder, pandoc_exit, pandoc_result, chunked_docs, embedded_docs,
                   query_embeddings, document_embeddings, total_chars, item, retval,
                   raised, sel_log, discard_log, last_visit, prev_call, rounds, swapped_vars,
                   chunker_vars>>

\* lines 123-125, one element: convert(doc, filename) of the next pair of the zip
ConvertDoc ==
    /\ pc = "convert"
    /\ Len(converted_docs) < ZipLen(documents, document_filenames)
    /\ LET i == Len(converted_docs) + 1
           filename == document_filenames[i]
       IN  IF IsPlainText(filename)
           THEN \* lines 99-101
                /\ converted_docs' = Append(converted_docs, documents[i])
                /\ UNCHANGED <<pc, raised, pandoc_result, pandoc_exit>>
           ELSE \* line 106, convert_pandoc: the markdown goes through a file
                \* named at random, read and removed before the call returns
                \E rc \in PandocExitCodes, output_file \in RandomWords :
                    /\ i \in DOMAIN pandoc_exit => rc = pandoc_exit[i]
                    /\ pandoc_exit' = (i :> rc) @@ pandoc_exit
                    /\ pandoc_result' = rc
                    /\ IF PandocFailed(rc)
                       THEN /\ raised' = PandocError
                            /\ pc' = "failed"
                            /\ UNCHANGED converted_docs
                       ELSE /\ converted_docs' = Append(converted_docs, documents[i])
                            /\ UNCHANGED <<pc, raised>>
    /\ UNCHANGED <<args, encoder, queries, document_filenames, chunked_docs, embedded_docs,
                   query_embeddings, document_embeddings, total_chars, item, retval,
                   sel_log, discard_log, last_visit, prev_call, rounds, swapped_vars,
                   chunker_vars>>

Converted ==
    /\ pc = "convert"
    /\ Len(converted_docs) = ZipLen(documents, document_filenames)

\* lines 128-130: everything fits, return the documents
FastPath ==
    /\ Converted
    /\ fits_whole(SumLens(converted_docs), max_characters)
    /\ IF fast_path_ok(converted_docs)
       THEN /\ retval' = Value(fast_path_value(converted_docs))
            /\ pc' = "done"
            /\ UNCHANGED raised
       ELSE /\ raised' = UnpackError
            /\ pc' = "failed"
            /\ UNCHANGED retval
    /\ UNCHANGED <<args, encoder, pandoc_exit, queries, document_filenames, pandoc_result,
                   converted_docs, chunked_docs, embedded_docs, query_embeddings,
                   document_embeddings, total_chars, item, sel_log, discard_log, last_visit, prev_call, rounds, swapped_vars,
                   chunker_vars>>

\* lines 128-133: it does not all fit, chunk every document
ChunkDocs ==
    /\ Converted
    /\ ~fits_whole(SumLens(converted_docs), max_characters)
    /\ chunked_docs' = [d \in DOMAIN converted_docs |-> chunk_to_length(converted_docs[d], ChunkSize)]
    /\ pc' = "embed"
    /\ UNCHANGED <<args, encoder, pandoc_exit, queries, document_filenames, pandoc_result,
                   converted_docs, embedded_docs, query_embeddings, document_embeddings,
                   total_chars, item, retval, raised, sel_log, discard_log, last_visit, prev_call, rounds, swapped_vars,
                   chunker_vars>>

QuerySet == {queries[i] : i \in DOMAIN queries}
ChunkTextSet == UNION {{chunked_docs[d][k] : k \in DOMAIN chunked_docs[d]} : d \in DOMAIN chunked_docs}

\* line 134: the model scores every query against every chunk; what it
\* answers for a pair of texts it answers every time
EmbedDocs ==
    /\ pc = "embed"
    /\ IF encoder = <<>>
       THEN encoder' \in [QuerySet \X ChunkTextSet -> Scores]
       ELSE UNCHANGED encoder
    /\ UNCHANGED <<args, pandoc_exit, queries, document_filenames, pandoc_result,
                   converted_docs, chunked_docs, query_embeddings, document_embeddings,
                   total_chars, item, retval, raised, sel_log, discard_log, last_visit, prev_call, rounds, swapped_vars,
                   chunker_vars>>
    /\ embedded_docs' = [d \in DOMAIN chunked_docs |-> embed(queries, chunked_docs[d])]'
    /\ pc' = "merge"

\* lines 136-154: the queue of every query, and an empty selection
BuildQueues ==
    /\ pc = "merge"
    /\ query_embeddings' = sort_all(merge_docs(<<>>, 0, embedded_docs))
    /\ document_embeddings' = new_document_embeddings(Len(documents))
    /\ total_chars' = 0
    /\ sel_log' = <<>>
    /\ discard_log' = <<>>
    /\ last_visit' = NoVisit
    /\ rounds' = 0
    /\ swapped_queues' = query_embeddings'
    /\ swapped_selected' = document_embeddings'
    /\ swapped_total' = 0
    /\ pc' = "while"
    /\ UNCHANGED <<args, encoder, pandoc_exit, queries, document_filenames, pandoc_result,
                   converted_docs, chunked_docs, embedded_docs, item, retval, raised,
                   prev_call, chunker_vars>>

\* lines 155-159: the test of the while loop; a round starts at the first item
WhileTest ==
    /\ pc = "while"
    /\ IF loop_continues(total_chars, max_characters, query_embeddings)
       THEN pc' = "for" /\ item' = 1 /\ rounds' = rounds + 1
       ELSE pc' = "emit" /\ UNCHANGED <<item, rounds>>
    /\ UNCHANGED <<args, encoder, pandoc_exit, queries, document_filenames, pandoc_result,
                   converted_docs, chunked_docs, embedded_docs, query_embeddings,
                   document_embeddings, total_chars, retval, raised, sel_log, discard_log, last_visit, prev_call,
                   swapped_vars,
                   chunker_vars>>

\* lines 159-177: one pass of the body of the for loop
VisitQuery ==
    /\ pc = "for"
    /\ item <= Len(query_embeddings)
    /\ LET query == query_embeddings[item].key
           doc_scores == query_embeddings[item].val
       IN  IF Len(doc_scores) = 0
           THEN /\ last_visit' = [query |-> query, outcome |-> "empty"]
                /\ UNCHANGED <<query_embeddings, document_embeddings, total_chars, sel_log,
                               discard_log>>
           ELSE LET doc_idx == Head(doc_scores)[1]
                    chunk_idx == Head(doc_scores)[2]
                    chunk == chunked_docs[doc_idx + 1][chunk_idx + 1]
                    visit(what) == [query |-> query, doc_idx |-> doc_idx,
                                    chunk_idx |-> chunk_idx, outcome |-> what]
                IN  /\ query_embeddings' =
                           [query_embeddings EXCEPT ![item].val = pop_head(doc_scores)]
                    /\ IF no_space(total_chars, chunk, max_characters)
                       THEN /\ last_visit' = visit("no space")
                            /\ discard_log' = Append(discard_log, <<doc_idx, chunk_idx>>)
                            /\ UNCHANGED <<document_embeddings, total_chars, sel_log>>
                       ELSE IF already_added(chunk_idx, document_embeddings[doc_idx + 1])
                       THEN /\ last_visit' = visit("already added")
                            /\ UNCHANGED <<document_embeddings, total_chars, sel_log, discard_log>>
                       ELSE /\ document_embeddings' =
                                   [document_embeddings EXCEPT
                                       ![doc_idx + 1] = Append(@, chunk_idx)]
                            /\ total_chars' = add_chars(total_chars, chunk)
                            /\ sel_log' = Append(sel_log, <<doc_idx, chunk_idx>>)
                            /\ last_visit' = visit("added")
                            /\ UNCHANGED discard_log
    /\ LET swapped == visit_swapped(swapped_queues, swapped_selected, swapped_total, item)
       IN  /\ swapped_queues' = swapped.queues
           /\ swapped_selected' = swapped.selected
           /\ swapped_total' = swapped.total
    /\ item' = next_item(item)
    /\ pc' = IF item' > Len(query_embeddings) THEN "while" ELSE "for"
    /\ UNCHANGED <<args, encoder, pandoc_exit, queries, document_filenames, pandoc_result,
                   converted_docs, chunked_docs, embedded_docs, retval, raised, prev_call,
                   rounds, chunker_vars>>

\* lines 179-185
Emit ==
    /\ pc = "emit"
    /\ retval' = Value(chunk_texts(chunked_docs, document_embeddings))
    /\ pc' = "done"
    /\ UNCHANGED <<args, encoder, pandoc_exit, queries, document_filenames, pandoc_result,
                   converted_docs, chunked_docs, embedded_docs, query_embeddings,
                   document_embeddings, total_chars, item, raised, sel_log, discard_log, last_visit,
                   prev_call, rounds, swapped_vars,
                   chunker_vars>>

Next ==
    \/ Start
    \/ ConvertDoc
    \/ FastPath
    \/ ChunkDocs
    \/ EmbedDocs
    \/ BuildQueues
    \/ WhileTest
    \/ VisitQuery
    \/ Emit

Spec == Init /\ [][Next]_vars

\* predict is straight-line code run by one thread: a call inside the loop of
\* line 155 that can take its next step takes it
SpecFair == Init /\ [][Next]_vars /\ WF_vars(WhileTest) /\ WF_vars(VisitQuery)

(***************************************************************************)
(* predict called a second time with the same arguments, in the same       *)
(* process: the arguments, the model and what pandoc does with each file   *)
(* are the same; every local is whatever the first call left until the     *)
(* second call assigns it.                                                 *)
(***************************************************************************)
CallAgain ==
    /\ pc \in {"done", "failed"}
    /\ prev_call = NoCall
    /\ prev_call' = Value([retval |-> retval, raised |-> raised])
    /\ retval' = NoValue
    /\ raised' = NoError
    /\ pc' = "start"
    /\ UNCHANGED <<args, encoder, pandoc_exit, queries, document_filenames, pandoc_result,
                   converted_docs, chunked_docs, embedded_docs, query_embeddings,
                   document_embeddings, total_chars, item, sel_log, discard_log, last_visit, rounds, swapped_vars,
                   chunker_vars>>

NextTwice ==
    \/ Next
    \/ CallAgain

SpecTwice == Init /\ [][NextTwice]_vars

(***************************************************************************)
(* chunk_to_length on its own, for every short text and max_length.        *)
(***************************************************************************)
ChunkerTexts == {ToText(s) : s \in StringsUpTo({"a", "b"}, MaxTextLen)}

InitChunk ==
    /\ ck_text \in ChunkerTexts
    /\ ck_max \in 1..MaxChunkLen
    /\ ck_out = NoValue
    /\ queries_str = <<>>
    /\ documents = <<>>
    /\ document_filenames_str = <<>>
    /\ max_characters = 0
    /\ pc = "idle"
    /\ Locals0

RunChunker ==
    /\ pc = "idle"
    /\ ck_out = NoValue
    /\ ck_out' = Value(chunk_to_length(ck_text, ck_max))
    /\ UNCHANGED <<args, encoder, pandoc_exit, pc, queries, document_filenames, pandoc_result,
                   converted_docs, chunked_docs, embedded_docs, query_embeddings,
                   document_embeddings, total_chars, item, retval, raised, sel_log, discard_log,
                   last_visit, prev_call, rounds, swapped_vars,
                   ck_text, ck_max>>

NextChunk == RunChunker

SpecChunk == InitChunk /\ [][NextChunk]_vars

(***************************************************************************)
(* Properties.                                                             *)
(***************************************************************************)
\* the allocation loop is running or has just ended
InAllocation == pc \in {"while", "for", "emit"}

\* predict returned from line 185, after the allocation
ReturnedAllocated ==
    /\ pc = "done"
    /\ ~fits_whole(SumLens(converted_docs), max_characters)

\* predict reached the test of line 129 with everything fitting, and ended
EndedFast ==
    /\ pc \in {"done", "failed"}
    /\ Len(converted_docs) = ZipLen(documents, document_filenames)
    /\ raised # PandocError
    /\ fits_whole(SumLens(converted_docs), max_characters)

\* the characters of all the fragments of a returned value
ResultChars(r) == SumLens([i \in DOMAIN r |-> JoinTexts(r[i])])

\* the candidates a queue held when the allocation started: one per chunk
NumCandidates == SumSizes(chunked_docs)

\* how many candidates the i-th query's queue has given up so far
Consumed(i) == NumCandidates - Len(query_embeddings[i].val)

\* the queries in the order supplied, each at its first occurrence
RECURSIVE FirstOccurrences(_, _)
FirstOccurrences(qs, seen) ==
    IF qs = <<>> THEN <<>>
    ELSE IF Head(qs) \in seen THEN FirstOccurrences(Tail(qs), seen)
    ELSE <<Head(qs)>> \o FirstOccurrences(Tail(qs), seen \cup {Head(qs)})

\* the chunk indices logged for document doc_idx, in the order of the log
RECURSIVE LoggedFor(_, _)
LoggedFor(log, doc_idx) ==
    IF log = <<>> THEN <<>>
    ELSE IF Head(log)[1] = doc_idx
         THEN <<Head(log)[2]>> \o LoggedFor(Tail(log), doc_idx)
         ELSE LoggedFor(Tail(log), doc_idx)

(* C1: Budget respected.  The characters of all fragments predict returns  *)
(* never exceed max_characters, and during the allocation total_chars      *)
(* never exceeds max_characters.                                           *)
BudgetRespected ==
    /\ InAllocation => total_chars <= max_characters
    /\ pc = "done" => ResultChars(retval[1]) <= max_characters

(* C2: No duplicate selection.  In every state, no chunk index appears     *)
(* twice in the selected list of a document.                               *)
NoDuplicateSelection ==
    \A d \in DOMAIN document_embeddings :
        \A i, j \in DOMAIN document_embeddings[d] :
            i # j => document_embeddings[d][i] # document_embeddings[d][j]

\* a candidate was popped that another query had already got selected
DuplicateSkipped ==
    /\ InAllocation
    /\ last_visit.outcome = "already added"
    /\ already_added(last_visit.chunk_idx, document_embeddings[last_visit.doc_idx + 1])
    /\ Len(query_embeddings) >= 2

(* C3: Fast-path equivalence.  When the converted texts together are       *)
(* shorter than max_characters, predict returns, per document in input     *)
(* order, a list holding exactly the document's full text.                 *)
FastPathEquivalence ==
    EndedFast =>
        /\ pc = "done"
        /\ retval = Value([i \in DOMAIN converted_docs |-> <<converted_docs[i]>>])

(* C4: Chunk round-trip.  The chunks of chunk_to_length, concatenated in   *)
(* order, are the text; no chunk is longer than max_length; every chunk    *)
(* but the last has exactly max_length characters.                         *)
RECURSIVE ConcatChars(_)
ConcatChars(chunks) ==
    IF chunks = <<>> THEN <<>> ELSE Expand(Head(chunks)) \o ConcatChars(Tail(chunks))

ChunkRoundTrip ==
    ck_out # NoValue =>
        LET chunks == ck_out[1]
        IN  /\ ConcatChars(chunks) = Expand(ck_text)
            /\ \A i \in DOMAIN chunks : Len(Expand(chunks[i])) <= ck_max
            /\ \A i \in 1..(Len(chunks) - 1) : Len(Expand(chunks[i])) = ck_max

\* a text cut into several chunks, the last one short
ChunkedWithRemainder ==
    /\ ck_out # NoValue
    /\ Len(ck_out[1]) >= 3
    /\ TextLen(ck_out[1][Len(ck_out[1])]) \in 1..(ck_max - 1)

(* C5: Round-robin fairness.  The queues are visited in the order the      *)
(* queries were supplied, one candidate per visit: a query earlier in the  *)
(* order has consumed as many candidates as a later one, or one more, and  *)
(* never two more.  (Without a converted document no query has a queue.)   *)
RoundRobinFair ==
    InAllocation =>
        /\ chunked_docs # <<>> =>
               [i \in DOMAIN query_embeddings |-> query_embeddings[i].key]
                   = FirstOccurrences(queries, {})
        /\ \A i, j \in DOMAIN query_embeddings :
               i < j => Consumed(i) - Consumed(j) \in {0, 1}

\* in the second round, the first query has had its second pick and the other has not
MidSecondRound ==
    /\ pc = "for"
    /\ Len(query_embeddings) = 2
    /\ item = 2
    /\ Consumed(1) = 2
    /\ Consumed(2) = 1

IsFragmentOf(fragment, doc) ==
    \/ fragment = doc
    \/ \E k \in DOMAIN chunk_to_length(doc, ChunkSize) :
           fragment = chunk_to_length(doc, ChunkSize)[k]

ResultShape ==
    pc = "done" =>
        /\ Len(retval[1]) = Len(documents)
        /\ \A i \in DOMAIN retval[1] :
               \A k \in DOMAIN retval[1][i] :
                   /\ i <= Len(converted_docs)
                   /\ IsFragmentOf(retval[1][i][k], converted_docs[i])

(* C8: Selection-order output.  The fragments of a document come in the    *)
(* order in which the allocation loop added their chunks, not in the       *)
(* order of their position in the document.                                *)
SelectionOrderOutput ==
    /\ InAllocation =>
           \A d \in DOMAIN document_embeddings :
               document_embeddings[d] = LoggedFor(sel_log, d - 1)
    /\ ReturnedAllocated =>
           \A d \in DOMAIN retval[1] :
               retval[1][d] = [k \in DOMAIN LoggedFor(sel_log, d - 1) |->
                                  chunked_docs[d][LoggedFor(sel_log, d - 1)[k] + 1]]

\* a later chunk of a document was selected before an earlier one, and returned first
ReturnedOutOfPosition ==
    /\ ReturnedAllocated
    /\ \E d \in DOMAIN document_embeddings :
           /\ Len(document_embeddings[d]) >= 2
           /\ document_embeddings[d][1] > document_embeddings[d][2]
           /\ retval[1][d][1] = chunked_docs[d][document_embeddings[d][1] + 1]
           /\ retval[1][d][1] # retval[1][d][2]

(* C9: Conversion failure is fatal.  Once pandoc has exited with a         *)
(* non-zero code for a document, predict has ended with the error, has     *)
(* returned nothing, and no chunking, embedding or allocation has run.     *)
ConversionFailureFatal ==
    pandoc_result # 0 =>
        /\ pc = "failed"
        /\ raised = PandocError
        /\ retval = NoValue
        /\ chunked_docs = <<>>
        /\ embedded_docs = <<>>
        /\ query_embeddings = <<>>
        /\ document_embeddings = <<>>

\* pandoc failed on the second document, after the first had been converted
FailedAfterOneConverted ==
    /\ pandoc_result # 0
    /\ pc = "failed"
    /\ Len(converted_docs) = 1
    /\ Len(documents) = 2

(* C10: InvalidBudget.  With max_characters zero or negative, predict      *)
(* ends in an error before any document is converted, chunked or           *)
(* embedded, and never returns a value.                                    *)
InvalidBudgetRejected ==
    max_characters <= 0 =>
        /\ pc # "done"
        /\ retval = NoValue
        /\ converted_docs = <<>>
        /\ chunked_docs = <<>>
        /\ embedded_docs = <<>>

(* C11: Zero queries.  When no query is supplied (the queries argument is  *)
(* the empty string) and the documents' total length is not below the      *)
(* budget, predict returns an empty fragment list for every document.      *)
ZeroQueriesEmptyResult ==
    (ReturnedAllocated /\ queries_str = <<>>) =>
        \A d \in DOMAIN retval[1] : retval[1][d] = <<>>

\* ceil(n / s) for n >= 0 and s > 0
CeilDiv(n, s) == (n + s - 1) \div s

(* C12: Chunk count, as the claim states it.  For every text of N          *)
(* characters, N >= 0, and every chunk size S > 0, chunk_to_length returns *)
(* exactly ceil(N / S) chunks.                                             *)
ChunkCountCeil ==
    ck_out # NoValue => Len(ck_out[1]) = CeilDiv(TextLen(ck_text), ck_max)

(* C12: Chunk count, amended.  chunk_to_length returns exactly ceil(N / S) *)
(* chunks for a text of N >= 1 characters, and exactly one chunk for the   *)
(* empty text.                                                             *)
ChunkCount ==
    ck_out # NoValue =>
        Len(ck_out[1]) = IF TextLen(ck_text) = 0 THEN 1
                         ELSE CeilDiv(TextLen(ck_text), ck_max)

\* a text whose length is a multiple of max_length, cut into several chunks
ChunkedExactMultiple ==
    /\ ck_out # NoValue
    /\ TextLen(ck_text) = 2 * ck_max
    /\ Len(ck_out[1]) = 2

(* C13: Empty text.  chunk_to_length of the empty text returns exactly one *)
(* chunk, the empty string, for every positive max_length.                 *)
EmptyTextOneChunk ==
    (ck_out # NoValue /\ TextLen(ck_text) = 0) => ck_out[1] = <<ToText(<<>>)>>

\* the empty text went through chunk_to_length with the largest max_length
EmptyTextChunked ==
    /\ ck_out # NoValue
    /\ ck_text = ToText(<<>>)
    /\ ck_max = MaxChunkLen
    /\ Len(ck_out[1]) = 1

\* the queues are built and no query has been visited yet
QueuesFresh == InAllocation /\ last_visit = NoVisit

\* candidate a goes before candidate b: higher score, or equal scores and
\* the lower (document index, chunk index)
RankedBefore(a, b) ==
    \/ a[3] > b[3]
    \/ /\ a[3] = b[3]
       /\ \/ a[1] < b[1]
          \/ a[1] = b[1] /\ a[2] < b[2]

(* C14: Merged queue order.  Before the allocation starts, each query's    *)
(* queue holds every (document index, chunk index, score) candidate of     *)
(* every document exactly once, sorted by descending score, candidates of  *)
(* equal score in ascending (document index, chunk index) order.           *)
MergedQueueOrder ==
    QueuesFresh =>
        \A i \in DOMAIN query_embeddings :
            LET query == query_embeddings[i].key
                doc_scores == query_embeddings[i].val
            IN  /\ Len(doc_scores) = NumCandidates
                /\ \A d \in DOMAIN chunked_docs : \A c \in DOMAIN chunked_docs[d] :
                       Cardinality({k \in DOMAIN doc_scores :
                                       /\ doc_scores[k][1] = d - 1
                                       /\ doc_scores[k][2] = c - 1
                                       /\ doc_scores[k][3] = encoder[query, chunked_docs[d][c]]}) = 1
                /\ \A k \in DOMAIN doc_scores : \A l \in DOMAIN doc_scores :
                       k < l => RankedBefore(doc_scores[k], doc_scores[l])

\* a fresh queue led by a chunk of the second document, with two candidates
\* of different documents tied further down
TiedAcrossDocuments ==
    /\ QueuesFresh
    /\ \E i \in DOMAIN query_embeddings :
           LET doc_scores == query_embeddings[i].val
           IN  /\ Len(doc_scores) >= 3
               /\ doc_scores[1][1] = 1
               /\ \E k \in DOMAIN doc_scores : \E l \in DOMAIN doc_scores :
                      /\ k < l
                      /\ doc_scores[k][3] = doc_scores[l][3]
                      /\ doc_scores[k][1] < doc_scores[l][1]

\* the rows of embed are built, for every document and every query
Embedded == pc = "merge"

QueuesEmpty == \A i \in DOMAIN query_embeddings : query_embeddings[i].val = <<>>

(* C16: Termination.  The allocation loop eventually stops: no call stays  *)
(* inside the loop for ever.  Its body is entered at most as many times as *)
(* the longest queue had candidates, and when it stops either total_chars  *)
(* is no longer below max_characters or every queue is empty.              *)
AllocationTerminates ==
    /\ [](InAllocation => rounds <= NumCandidates)
    /\ [](pc = "emit" => (total_chars >= max_characters \/ QueuesEmpty))
    /\ []<>(pc \notin {"while", "for"})

\* the loop stopped with every queue drained and budget left, after as many
\* rounds as a queue had candidates
StoppedOnEmptyQueues ==
    /\ pc = "emit"
    /\ QueuesEmpty
    /\ total_chars < max_characters
    /\ NumCandidates >= 3
    /\ rounds = NumCandidates

\* the spec's second scenario: one document of 1200 characters, a budget of
\* 600, one query that ranks chunk 0 first, chunk 2 second and chunk 1 last
RanksFirstThenLast ==
    /\ Len(documents) = 1
    /\ Len(converted_docs) = 1
    /\ TextLen(documents[1]) = 1200
    /\ max_characters = 600
    /\ Len(queries) = 1
    /\ Len(chunked_docs) = 1
    /\ Len(chunked_docs[1]) = 3
    /\ encoder # <<>>
    /\ encoder[queries[1], chunked_docs[1][1]] >= encoder[queries[1], chunked_docs[1][3]]
    /\ encoder[queries[1], chunked_docs[1][3]] > encoder[queries[1], chunked_docs[1][2]]

\* no candidate is twice in one queue
NoRepeatInQueue ==
    \A i \in DOMAIN query_embeddings :
        LET doc_scores == query_embeddings[i].val
        IN  \A k \in DOMAIN doc_scores : \A l \in DOMAIN doc_scores :
                (doc_scores[k][1] = doc_scores[l][1] /\ doc_scores[k][2] = doc_scores[l][2])
                    => k = l

\* a pass of the for loop takes the head off the visited queue, if it has
\* one, and leaves every other queue as it is
VisitPopsHead ==
    pc = "for" =>
        /\ DOMAIN query_embeddings' = DOMAIN query_embeddings
        /\ \A i \in DOMAIN query_embeddings :
               /\ query_embeddings'[i].key = query_embeddings[i].key
               /\ query_embeddings'[i].val =
                      IF i = item /\ query_embeddings[i].val # <<>>
                      THEN Tail(query_embeddings[i].val)
                      ELSE query_embeddings[i].val

\* between the passes nothing enters or leaves a queue
QueuesKept == pc \in {"while", "emit"} => query_embeddings' = query_embeddings

(* C17: One-shot consumption.  Every visit of a query whose queue is not   *)
(* empty removes exactly the head of that queue, whether the candidate is  *)
(* selected or discarded, and touches no other queue; nothing ever enters  *)
(* a queue during the allocation, and a queue never holds a candidate      *)
(* twice, so a candidate is popped at most once.  With one document of     *)
(* 1200 characters, a budget of 600 and one query ranking chunk 0 then     *)
(* chunk 2, the result is chunk 0 only.                                    *)
OneShotConsumption ==
    /\ [][VisitPopsHead]_vars
    /\ [][QueuesKept]_vars
    /\ [](InAllocation => NoRepeatInQueue)
    /\ []((pc = "done" /\ RanksFirstThenLast) =>
             /\ document_embeddings = <<<<0>>>>
             /\ retval = Value(<<<<chunked_docs[1][1]>>>>))

\* the scenario ended: chunk 2 and chunk 1 were popped, discarded for lack
\* of space and never looked at again
DiscardedForGood ==
    /\ pc = "done"
    /\ RanksFirstThenLast
    /\ rounds = 3
    /\ QueuesEmpty
    /\ last_visit.outcome = "no space"
    /\ last_visit.chunk_idx = 1
    /\ total_chars = 512

\* the k-th candidate skipped for lack of space fits the budget left now
FitsNow(k) ==
    LET chunk == chunked_docs[discard_log[k][1] + 1][discard_log[k][2] + 1]
    IN  total_chars + TextLen(chunk) <= max_characters

(* C18: Budget under-use by one-shot discard, as the claim states it: the  *)
(* allocation ends with a candidate that was discarded for not fitting the *)
(* remaining budget and that fits the budget left after the later rounds.  *)
UnderUseByDiscard ==
    (pc = "emit" /\ discard_log # <<>>) => \E k \in DOMAIN discard_log : FitsNow(k)

(* C18: Budget under-use by one-shot discard, amended.  In no run of the   *)
(* allocation does a candidate discarded for not fitting the remaining     *)
(* budget fit the remaining budget at any later point of the same          *)
(* allocation: total_chars never decreases, so what did not fit never fits.*)
DiscardedNeverFits ==
    InAllocation => \A k \in DOMAIN discard_log : ~FitsNow(k)

\* after a candidate was discarded for lack of space a later round selected
\* a smaller one, and the discarded one still does not fit
AddedAfterDiscard ==
    /\ InAllocation
    /\ discard_log # <<>>
    /\ last_visit.outcome = "added"
    /\ rounds >= 2
    /\ total_chars < max_characters

\* predict ended, not on a conversion error, and the lengths of the documents
\* it converted (line 128) add up to max_characters exactly
EndedAtBoundary ==
    /\ pc \in {"done", "failed"}
    /\ Len(converted_docs) = ZipLen(documents, document_filenames)
    /\ raised # PandocError
    /\ SumLens(converted_docs) = max_characters

(* C19: Boundary of the fast path.  When the document lengths add up to    *)
(* max_characters exactly, the fast path is not taken: the documents are   *)
(* chunked, the allocation runs, every chunk of positive length of every   *)
(* document is selected and the returned fragments have exactly            *)
(* max_characters characters in total.                                     *)
BoundaryAllocatesAll ==
    EndedAtBoundary =>
        /\ pc = "done"
        /\ raised = NoError
        /\ Len(chunked_docs) = Len(converted_docs)
        /\ max_characters > 0 => rounds >= 1
        /\ \A d \in DOMAIN chunked_docs : \A c \in DOMAIN chunked_docs[d] :
               TextLen(chunked_docs[d][c]) > 0 =>
                   already_added(c - 1, document_embeddings[d])
        /\ retval = Value(chunk_texts(chunked_docs, document_embeddings))
        /\ ResultChars(retval[1]) = max_characters

\* two documents of 600 characters and a budget of 1200: all four chunks
\* are returned
BoundaryTwoDocuments ==
    /\ EndedAtBoundary
    /\ max_characters = 1200
    /\ Len(converted_docs) = 2
    /\ Len(query_embeddings) = 2
    /\ retval # NoValue
    /\ Len(retval[1][1]) = 2
    /\ Len(retval[1][2]) = 2

\* the characters of the chunks whose indices are in the set idxs, for the
\* chunks cd of one document
RECURSIVE CharsOf(_, _)
CharsOf(cd, idxs) ==
    IF idxs = {} THEN 0
    ELSE LET c == CHOOSE c \in idxs : TRUE
         IN  TextLen(cd[c + 1]) + CharsOf(cd, idxs \ {c})

\* the characters of the chunks selected in documents d, d + 1, ..., each
\* selected chunk counted once
RECURSIVE SelectedChars(_)
SelectedChars(d) ==
    IF d > Len(document_embeddings) THEN 0
    ELSE CharsOf(chunked_docs[d], {document_embeddings[d][k] : k \in DOMAIN document_embeddings[d]})
         + SelectedChars(d + 1)

\* total_chars does not go down while the allocation runs
TotalGrows == (InAllocation /\ InAllocation') => total_chars' >= total_chars

\* a pass that discards its candidate, or finds the queue empty, leaves
\* total_chars as it is
DiscardKeepsTotal ==
    (pc = "for" /\ last_visit'.outcome \in {"no space", "already added", "empty"})
        => total_chars' = total_chars

(* C20: Running-total invariant.  In every state of the allocation loop    *)
(* total_chars equals the sum of the lengths of the chunks currently       *)
(* selected over all documents, each selected chunk counted once; it       *)
(* starts at 0, never decreases, and is left unchanged by every discarded  *)
(* candidate.                                                              *)
RunningTotal ==
    /\ [](InAllocation => total_chars = SelectedChars(1))
    /\ [](QueuesFresh => total_chars = 0)
    /\ [][TotalGrows]_vars
    /\ [][DiscardKeepsTotal]_vars

\* chunks of two documents are selected, one candidate was discarded for
\* lack of space and the last one popped was skipped as already selected
TotalAfterDiscards ==
    /\ InAllocation
    /\ Len(sel_log) >= 2
    /\ discard_log # <<>>
    /\ last_visit.outcome = "already added"
    /\ total_chars > 0

\* the allocation loop has stopped: line 180 is next, or predict returned
\* from line 185
AllocationEnded == pc = "emit" \/ ReturnedAllocated

\* no chunk of positive length left out of the lists fits what is left of
\* the budget
NothingElseFits ==
    \A d \in DOMAIN chunked_docs : \A c \in DOMAIN chunked_docs[d] :
        (TextLen(chunked_docs[d][c]) > 0 /\ ~already_added(c - 1, document_embeddings[d]))
            => total_chars + TextLen(chunked_docs[d][c]) > max_characters

\* the k-th candidate skipped for lack of space is of a chunk in the lists
DiscardedIsSelected(k) ==
    already_added(discard_log[k][2], document_embeddings[discard_log[k][1] + 1])

(* C21: Maximal result, as the claim states it.  When the allocation ends, *)
(* no chunk of positive length that is absent from the result would still  *)
(* fit: for every unselected chunk c with len(c) > 0, total_chars + len(c) *)
(* exceeds max_characters; equivalently, a chunk once discarded for        *)
(* exceeding the budget is never part of the final result through any      *)
(* query.                                                                  *)
MaximalAndNeverDiscarded ==
    AllocationEnded =>
        /\ NothingElseFits
        /\ \A k \in DOMAIN discard_log : ~DiscardedIsSelected(k)

(* C21: Maximal result, amended.  When the allocation ends, no chunk of    *)
(* positive length that is absent from the result would still fit; and a   *)
(* chunk discarded for exceeding the budget is never selected afterwards   *)
(* through any query: no add is of a chunk discarded before.  (A chunk     *)
(* already selected can still be discarded for the budget when another     *)
(* query offers it, because the budget is tested first.)                   *)
MaximalResult ==
    /\ AllocationEnded => NothingElseFits
    /\ (InAllocation /\ last_visit.outcome = "added") =>
           \A k \in DOMAIN discard_log :
               discard_log[k] # <<last_visit.doc_idx, last_visit.chunk_idx>>

\* the allocation ended with budget left: a chunk selected through one query
\* was discarded for the budget when the other query offered it, and a
\* shorter chunk that both queries offered is left out
EndedWithRoomForNothing ==
    /\ AllocationEnded
    /\ 0 < total_chars
    /\ total_chars < max_characters
    /\ Len(query_embeddings) = 2
    /\ \E k \in DOMAIN discard_log : DiscardedIsSelected(k)
    /\ \E d \in DOMAIN chunked_docs : \E c \in DOMAIN chunked_docs[d] :
           /\ ~already_added(c - 1, document_embeddings[d])
           /\ TextLen(chunked_docs[d][c]) < max_characters

(* C22: Check order is irrelevant.  The code tests the budget before the   *)
(* already-selected test; run with the two tests in the other order, on    *)
(* the same queues, the allocation has the same selected lists, the same   *)
(* running total and the same queue contents after every step, and so the  *)
(* same loop test.                                                         *)
CheckOrderIrrelevant ==
    InAllocation =>
        /\ swapped_selected = document_embeddings
        /\ swapped_total = total_chars
        /\ swapped_queues = query_embeddings
        /\ loop_continues(swapped_total, max_characters, swapped_queues)
               = loop_continues(total_chars, max_characters, query_embeddings)

\* a candidate for a chunk that is already selected has just failed the
\* budget test, which the other order never asks for it
BothTestsWouldDiscard ==
    /\ InAllocation
    /\ last_visit.outcome = "no space"
    /\ already_added(last_visit.chunk_idx, document_embeddings[last_visit.doc_idx + 1])
    /\ swapped_selected # <<>>
    /\ swapped_total > 0

(***************************************************************************)
(* predict called with a duplicated query line, then called again in the   *)
(* same process with every repeated line removed, the first occurrence     *)
(* kept in its place; the documents, file names, budget, scores and pandoc *)
(* outcomes are the same.                                                  *)
(***************************************************************************)
CallDeduplicated ==
    /\ pc \in {"done", "failed"}
    /\ prev_call = NoCall
    /\ FirstOccurrences(queries, {}) # queries
    /\ prev_call' = Value([retval |-> retval, raised |-> raised, queries_str |-> queries_str])
    /\ queries_str' = JoinLines(FirstOccurrences(queries, {}))
    /\ retval' = NoValue
    /\ raised' = NoError
    /\ pc' = "start"
    /\ UNCHANGED <<documents, document_filenames_str, max_characters, encoder, pandoc_exit,
                   queries, document_filenames, pandoc_result, converted_docs, chunked_docs,
                   embedded_docs, query_embeddings, document_embeddings, total_chars, item,
                   sel_log, discard_log, last_visit, rounds, swapped_vars, chunker_vars>>

NextDedup ==
    \/ Next
    \/ CallDeduplicated

SpecDedup == Init /\ [][NextDedup]_vars

(* C23: Duplicate queries collapse.  Queues are keyed by query text: a     *)
(* query supplied more than once owns a single queue, at the place of its  *)
(* first occurrence, holding each candidate once, so it gets one pick per  *)
(* round; and predict with a duplicated query line ends as it does with    *)
(* the duplicate removed: the same fragment lists, or the same error.      *)
DuplicatesCollapse ==
    /\ (InAllocation /\ chunked_docs # <<>>) =>
           /\ [i \in DOMAIN query_embeddings |-> query_embeddings[i].key]
                  = FirstOccurrences(queries, {})
           /\ QueuesFresh =>
                  \A i \in DOMAIN query_embeddings :
                      Len(query_embeddings[i].val) = NumCandidates
    /\ (prev_call # NoCall /\ pc \in {"done", "failed"}) =>
           /\ retval = prev_call[1].retval
           /\ raised = prev_call[1].raised

\* the call with queries a, b, a and the call with a, b both went through
\* the allocation, and returned fragments
ReturnedWithoutDuplicate ==
    /\ prev_call # NoCall
    /\ prev_call[1].queries_str = <<"a", NL, "b", NL, "a">>
    /\ queries_str = <<"a", NL, "b">>
    /\ ReturnedAllocated
    /\ Len(sel_log) >= 2
    /\ prev_call[1].retval = retval

====
